---------------------------- MODULE Spec2Model ----------------------------
(***************************************************************************)
(* Model of the ws_raw WebSocket server core (src/include/ws_raw/ws_raw.c):*)
(* the client registry (add_client / remove_client), the per-client        *)
(* transmission state machine (ws_raw_send_to, the SERVER_WRITEABLE branch *)
(* of cb_ws) and the broadcast dispatcher.                                 *)
(*                                                                         *)
(* One libwebsockets service thread ("ev") runs the cb_ws callbacks; the   *)
(* application threads (App) call the public API.  Every critical section  *)
(* is entered by one step that takes ctx->lock and left by a later step    *)
(* that releases it, so other threads interleave between the two.          *)
(*                                                                         *)
(* Client records live at heap addresses 1..MaxConn (0 is NULL); a freed   *)
(* address may be handed out again by calloc.  Byte buffers are kept in    *)
(* run-length form: <<n, b>> is n bytes of value b.                        *)
(*                                                                         *)
(* The second part models the secure-stream server session of              *)
(* src/include/custom/ss_server.c (server_srv_state, server_srv_rx,        *)
(* server_srv_tx over the response buffer g) with the command handler and  *)
(* sendCanMjs of src/include/custom/syko_handler.c; its specification is   *)
(* SpecSS.  The two parts share no state.                                  *)
(***************************************************************************)
EXTENDS Integers, Sequences, FiniteSets, TLC

\* ------------------------------------------------------------- constants
CLIENT_ID_SIZE == 37
MAX_CLIENTS_DEFAULT == 100
STATIC_BUFFER_SIZE == 4096
\* libwebsockets' LWS_PRE: _LWS_PAD(4 + 10 + 2) = 16
LWS_PRE == 16

\* ---------------------------------------------------------------- bounds
\* connections the transport accepts during a run; calloc and malloc have
\* one address per connection to hand out (and hand out again once freed)
MaxConn == 2
\* largest max_clients value the application configures (0..MaxCfg)
MaxCfg == 1

Conns == 1..MaxConn
Addrs == 1..MaxConn
Bufs == 1..MaxConn
\* time(NULL): every registration of a run falls in the same second, the case
\* in which only the counter tells two ids apart
Times == {0}
NULL == 0
NoOwner == "none"
EvThread == "ev"
App == {"app1"}
Threads == {EvThread} \cup App

\* ------------------------------------------------------ payloads (inputs)
\* A payload is len bytes of value data; data = -1 stands for a NULL data
\* pointer.  4080 = STATIC_BUFFER_SIZE - LWS_PRE is the largest inline
\* payload and 4081 the smallest heap-backed one.
NullData == -1
ValidPayloads ==
    { [data |-> 101, len |-> STATIC_BUFFER_SIZE - LWS_PRE],
      [data |-> 120, len |-> STATIC_BUFFER_SIZE - LWS_PRE + 1] }
InvalidPayloads ==
    { [data |-> NullData, len |-> 2], [data |-> 104, len |-> 0] }
Payloads == ValidPayloads \cup InvalidPayloads
NoPayload == [data |-> NullData, len |-> 0]
\* the message a peer sends (in, len of LWS_CALLBACK_RECEIVE)
RxMessages == {[data |-> 130, len |-> 5]}

\* ------------------------------------------------- byte runs (memcpy etc.)
RECURSIVE DropBytes(_, _)
DropBytes(r, n) ==
    IF n = 0 \/ r = <<>> THEN r
    ELSE IF r[1][1] <= n THEN DropBytes(Tail(r), n - r[1][1])
    ELSE << <<r[1][1] - n, r[1][2]>> >> \o Tail(r)

RECURSIVE TakeBytes(_, _)
TakeBytes(r, n) ==
    IF n = 0 \/ r = <<>> THEN <<>>
    ELSE IF r[1][1] <= n THEN <<r[1]>> \o TakeBytes(Tail(r), n - r[1][1])
    ELSE << <<n, r[1][2]>> >>

JoinBytes(a, b) ==
    IF a = <<>> THEN b
    ELSE IF b = <<>> THEN a
    ELSE IF a[Len(a)][2] = b[1][2]
         THEN SubSeq(a, 1, Len(a) - 1)
              \o << <<a[Len(a)][1] + b[1][1], b[1][2]>> >> \o Tail(b)
         ELSE a \o b

RECURSIVE ByteLen(_)
ByteLen(r) == IF r = <<>> THEN 0 ELSE r[1][1] + ByteLen(Tail(r))

\* the bytes of a payload
PayloadBytes(p) == IF p.len = 0 THEN <<>> ELSE << <<p.len, p.data>> >>

\* memcpy(dst + LWS_PRE, data, len): dst is the region after the LWS_PRE pad
memcpy(dst, p) == JoinBytes(PayloadBytes(p), DropBytes(dst, p.len))


\* ----------------------------------------------------------------- state
VARIABLES
    inited,        \* ws != NULL: ws_raw_init has run
    cfgIn,         \* cfg->max_clients as given by the application
    max_clients,   \* ctx->cfg->max_clients (the internal copy)
    clients,       \* ctx->clients: the linked list, head first (addresses)
    client,        \* heap: client records by address
    dynbuf,        \* heap: dynamic transmission buffers by buffer id
    counter,       \* static counter of generate_client_id
    client_counter,\* ctx->client_counter
    lock,          \* owner of ctx->lock, or NoOwner
    psd_client,    \* per_session_data.client of every connection
    connState,     \* transport side: what has happened to the connection
    armed,         \* lws_callback_on_writable requested and not yet delivered
    wire,          \* the frame lws_write was given by the running callback
    pc,            \* position of every thread
    frame,         \* arguments, locals and result of the running operation
    snap,          \* the client array an application thread got from get_clients
    owed,          \* history: successful schedulings minus hand-offs, per record
    owedPl,        \* history: payload scheduled and not yet handed off
    stale,         \* history: held pointers whose client was unregistered
    issued,        \* history: the counter values generate_client_id has read
    reclosed,      \* history: a connection got a second CLOSED notification
    userobj,       \* server_srv_t (g): payload (what it holds), size, pos
    overrun,       \* bytes the last memcpy wrote past the end of g->payload
    ss_state,      \* the secure stream: none, created, txn (in a transaction)
    ss_pc,         \* position of the service loop in the session's callbacks
    ss_tx_req,     \* lws_ss_request_tx(_len) asked for and not yet served
    ss_ret,        \* what the last callback returned
    ss_cb,         \* the callback that ran last
    tx_out,        \* the chunk the last server_srv_tx put into buf
    stream,        \* history: the message begun on the wire and not yet ended
    received_command, \* server_srv_rx's local received_command
    can,           \* sendCanMjs: its arguments, bytes_sent and frame.data
    s_writes       \* the write() calls of the running or last sendCanMjs

wsvars == << inited, cfgIn, max_clients, clients, client, dynbuf, counter,
             client_counter, lock, psd_client, connState, armed, wire, pc,
             frame, snap, owed, owedPl, stale, issued, reclosed >>

ssvars == << userobj, overrun, ss_state, ss_pc, ss_tx_req, ss_ret, ss_cb,
             tx_out, stream, received_command, can, s_writes >>

vars == << wsvars, ssvars >>

\* struct ws_raw_client after free(): no field means anything
FreedRec ==
    [ live |-> FALSE, wsi |-> NULL, id |-> <<>>, tx_buf_static |-> <<>>,
      tx_buf_dynamic |-> NULL, tx_len |-> 0, tx_pending |-> 0,
      using_static |-> 0 ]

FreeBuf == [ size |-> 0, bytes |-> <<>> ]
Uninit == -2
NoFrame == [ wsi |-> NULL, bytes |-> <<>> ]

IdleFrame ==
    [ op |-> "none", conn |-> NULL, client |-> NULL, pl |-> NoPayload,
      rx |-> NoPayload, res |-> 0, stale |-> FALSE, touched |-> FALSE,
      sched |-> {} ]

Range(s) == { s[i] : i \in 1..Len(s) }

\* ------------------------------------------------------------ the mutex
\* (a lock that does not exclude)
pthread_mutex_lock_unchecked(t) == lock' = t

pthread_mutex_lock(t) == lock = NoOwner /\ lock' = t

\* (a return path that keeps the lock)
pthread_mutex_unlock_missing(t) == UNCHANGED lock

pthread_mutex_unlock(t) == lock' = NoOwner

\* ----------------------------------------------------- ws_raw_init (366)
\* "Apply defaults": a max_clients <= 0 becomes MAX_CLIENTS_DEFAULT
ApplyDefaults(m) == IF m <= 0 THEN MAX_CLIENTS_DEFAULT ELSE m

ws_raw_init ==
    /\ UNCHANGED ssvars
    /\ ~inited
    /\ inited' = TRUE
    /\ max_clients' = ApplyDefaults(cfgIn)
    /\ UNCHANGED << cfgIn, clients, client, dynbuf, counter, client_counter,
                    lock, psd_client, connState, armed, wire, pc, frame,
                    snap, owed, owedPl, reclosed,
                    stale, issued >>

\* ------------------------------------------------- generate_client_id
\* snprintf("client-%ld-%04d", now, __sync_fetch_and_add(&counter, 1)) into a
\* buffer of CLIENT_ID_SIZE bytes: the id is the text's three parts.  The
\* counter is an unsigned int; a run registers at most MaxConn clients, far
\* from its wrap-around, and the longest text (7 + 10 + 1 + 11 characters)
\* fits CLIENT_ID_SIZE - 1.
IdText(now, ctr) == << "client", now, ctr >>

\* (the counter read without being advanced)
generate_client_id_noinc(now, ctr) ==
    [ id |-> IdText(now, ctr), counter |-> ctr ]

generate_client_id(now, ctr) ==
    [ id |-> IdText(now, ctr), counter |-> ctr + 1 ]

\* -------------------------------------------------------- add_client
\* (the check off by one: count > max)
CapacityReached_off_by_one(count, max) == max > 0 /\ count > max

\* line 149: the capacity check, on the length of the list
CapacityReached(count, max) == max > 0 /\ count >= max

\* calloc: any free address, or NULL
CallocChoices == {NULL} \cup { a \in Addrs : ~client[a].live }

NewClient(c, id) ==
    [ live |-> TRUE, wsi |-> c, id |-> id,
      tx_buf_static |-> << <<STATIC_BUFFER_SIZE - LWS_PRE, 0>> >>,
      tx_buf_dynamic |-> NULL, tx_len |-> 0, tx_pending |-> 0,
      using_static |-> 1 ]

add_client(c, a, now) ==
    LET count == Len(clients)
        g == generate_client_id(now, counter)
    IN  IF CapacityReached(count, max_clients)
        THEN /\ frame' = [frame EXCEPT ![EvThread] =
                    [IdleFrame EXCEPT !.op = "established", !.conn = c,
                                      !.client = NULL, !.res = -1]]
             /\ UNCHANGED << clients, client, counter, client_counter, owed,
                             owedPl, issued >>
        ELSE IF a = NULL
        THEN /\ frame' = [frame EXCEPT ![EvThread] =
                    [IdleFrame EXCEPT !.op = "established", !.conn = c,
                                      !.client = NULL, !.res = -2]]
             /\ UNCHANGED << clients, client, counter, client_counter, owed,
                             owedPl, issued >>
        ELSE /\ client' = [client EXCEPT ![a] = NewClient(c, g.id)]
             /\ counter' = g.counter
             /\ clients' = <<a>> \o clients
             /\ client_counter' = client_counter + 1
             /\ owed' = [owed EXCEPT ![a] = 0]
             /\ owedPl' = [owedPl EXCEPT ![a] = NoPayload]
             /\ issued' = Append(issued, g.id[3])
             /\ frame' = [frame EXCEPT ![EvThread] =
                    [IdleFrame EXCEPT !.op = "established", !.conn = c,
                                      !.client = a, !.res = 0]]

\* cb_ws, LWS_CALLBACK_ESTABLISHED: add_client up to its unlock
cb_established(c) ==
    /\ UNCHANGED ssvars
    /\ inited /\ pc[EvThread] = "idle" /\ connState[c] = "new"
    /\ pthread_mutex_lock(EvThread)
    /\ \E a \in CallocChoices, now \in Times : add_client(c, a, now)
    /\ pc' = [pc EXCEPT ![EvThread] = "add_unlock"]
    /\ UNCHANGED << inited, cfgIn, max_clients, dynbuf, psd_client,
                    connState, armed, wire, snap, reclosed,
                    stale >>

\* (the connect hook called whatever add_client returned)
HookOnConnect_always(ptr) == TRUE

\* cb_ws line 248: psd->client && cfg->on_connect, the hook being configured
HookOnConnect(ptr) == ptr # NULL

\* add_client's unlock and return; psd->client = the result; then on_connect
\* is entered when a client came back
cb_established_return ==
    /\ UNCHANGED ssvars
    /\ pc[EvThread] = "add_unlock"
    /\ pthread_mutex_unlock(EvThread)
    /\ LET f == frame[EvThread] IN
       /\ psd_client' = [psd_client EXCEPT ![f.conn] = f.client]
       /\ connState' = [connState EXCEPT ![f.conn] =
              IF f.client # NULL THEN "open"
              ELSE IF f.res = -1 THEN "refused_cap" ELSE "refused_mem"]
       /\ IF HookOnConnect(f.client)
          THEN /\ pc' = [pc EXCEPT ![EvThread] = "on_connect"]
               /\ UNCHANGED frame
          ELSE /\ pc' = [pc EXCEPT ![EvThread] = "idle"]
               /\ frame' = [frame EXCEPT ![EvThread] = IdleFrame]
    /\ UNCHANGED << inited, cfgIn, max_clients, clients, client, dynbuf,
                    counter, client_counter, armed, wire, snap, owed, owedPl,
                    reclosed,
                    stale, issued >>

\* cfg->on_connect returns (cb_ws line 249 completes)
on_connect_return ==
    /\ UNCHANGED ssvars
    /\ pc[EvThread] = "on_connect"
    /\ pc' = [pc EXCEPT ![EvThread] = "idle"]
    /\ frame' = [frame EXCEPT ![EvThread] = IdleFrame]
    /\ UNCHANGED << inited, cfgIn, max_clients, clients, client, dynbuf,
                    counter, client_counter, lock, psd_client, connState,
                    armed, wire, snap, owed, owedPl, stale, issued, reclosed >>

\* the application's hook (on_connect, or on_disconnect called at line 204)
\* calls ws_raw_client_count and arrives at its pthread_mutex_lock
hook_call_count ==
    /\ UNCHANGED ssvars
    /\ pc[EvThread] \in {"on_connect", "rm_free"}
    /\ pc' = [pc EXCEPT ![EvThread] = "hc_wait"]
    /\ UNCHANGED << inited, cfgIn, max_clients, clients, client, dynbuf,
                    counter, client_counter, lock, psd_client, connState,
                    armed, wire, frame, snap, owed, owedPl, stale, issued,
                    reclosed >>

\* (the running counter returned instead of the list's length)
CountList_total(list) == client_counter

\* ws_raw_client_count lines 631-636: count++ for every node
RECURSIVE CountList(_)
CountList(list) == IF list = <<>> THEN 0 ELSE 1 + CountList(Tail(list))

\* ws_raw_client_count lines 630-636: lock, walk the list
ws_raw_client_count(t) ==
    /\ UNCHANGED ssvars
    /\ inited
    /\ \/ t \in App /\ pc[t] = "idle"
       \/ t = EvThread /\ pc[t] = "hc_wait"
    /\ pthread_mutex_lock(t)
    /\ IF t \in App
       THEN /\ pc' = [pc EXCEPT ![t] = "api_unlock"]
            /\ frame' = [frame EXCEPT ![t] =
                   [IdleFrame EXCEPT !.op = "count",
                                     !.res = CountList(clients)]]
       ELSE /\ pc' = [pc EXCEPT ![t] = "hc_unlock"]
            /\ frame' = [frame EXCEPT ![t].res = CountList(clients)]
    /\ UNCHANGED << inited, cfgIn, max_clients, clients, client, dynbuf,
                    counter, client_counter, psd_client, connState, armed,
                    wire, snap, owed, owedPl, stale, issued, reclosed >>

\* ws_raw_client_count lines 637-639 inside a hook: unlock, return to the hook
hook_count_return ==
    /\ UNCHANGED ssvars
    /\ pc[EvThread] = "hc_unlock"
    /\ pthread_mutex_unlock(EvThread)
    /\ pc' = [pc EXCEPT ![EvThread] =
           IF frame[EvThread].op = "established" THEN "on_connect"
           ELSE "rm_free"]
    /\ UNCHANGED << inited, cfgIn, max_clients, clients, client, dynbuf,
                    counter, client_counter, psd_client, connState, armed,
                    wire, frame, snap, owed, owedPl, stale, issued, reclosed >>

\* ------------------------------------------- cb_ws, LWS_CALLBACK_RECEIVE
\* (the hook given a shortened message)
OnRxArgs_short(m) == [m EXCEPT !.len = @ - 1]

\* line 260: on_rx(ctx, psd->client, in, len)
OnRxArgs(m) == m

\* lines 254-261: the guard, then the application's receive hook
cb_receive(c, m) ==
    /\ UNCHANGED ssvars
    /\ inited /\ pc[EvThread] = "idle"
    /\ connState[c] # "new"
    /\ IF psd_client[c] = NULL
       THEN UNCHANGED << pc, frame >>
       ELSE /\ pc' = [pc EXCEPT ![EvThread] = "on_rx"]
            /\ frame' = [frame EXCEPT ![EvThread] =
                   [IdleFrame EXCEPT !.op = "receive", !.conn = c,
                                     !.client = psd_client[c],
                                     !.rx = m, !.pl = OnRxArgs(m)]]
    /\ UNCHANGED << inited, cfgIn, max_clients, clients, client, dynbuf,
                    counter, client_counter, lock, psd_client, connState,
                    armed, wire, snap, owed, owedPl, stale, issued, reclosed >>

\* cfg->on_rx returns
cb_receive_return ==
    /\ UNCHANGED ssvars
    /\ pc[EvThread] = "on_rx"
    /\ pc' = [pc EXCEPT ![EvThread] = "idle"]
    /\ frame' = [frame EXCEPT ![EvThread] = IdleFrame]
    /\ UNCHANGED << inited, cfgIn, max_clients, clients, client, dynbuf,
                    counter, client_counter, lock, psd_client, connState,
                    armed, wire, snap, owed, owedPl, stale, issued, reclosed >>

\* ------------------------------------------------------ remove_client
\* (the node left on the list)
Unlink_none(list, a) == list

\* the list without its first node at address a (lines 192-195, 210)
RECURSIVE Unlink(_, _)
Unlink(list, a) ==
    IF list = <<>> THEN <<>>
    ELSE IF Head(list) = a THEN Tail(list)
    ELSE <<Head(list)>> \o Unlink(Tail(list), a)

\* (the dynamic buffer never given back)
FreeDynamic_leak(heap, b) == heap

\* free(client->tx_buf_dynamic) when it is not NULL (lines 198-200)
FreeDynamic(heap, b) == IF b = NULL THEN heap ELSE [heap EXCEPT ![b] = FreeBuf]

\* (psd->client left pointing at the freed record)
PsdAfterClose_keep(p) == p

\* cb_ws line 296: psd->client after remove_client returned
PsdAfterClose(p) == NULL

\* cb_ws, LWS_CALLBACK_CLOSED: the guard of line 294, then remove_client up
\* to the node being unlinked and its dynamic buffer freed.  The transport
\* drops the closed connection's writable request.
cb_closed(c) ==
    /\ UNCHANGED ssvars
    /\ inited /\ pc[EvThread] = "idle"
    /\ connState[c] # "new"
    /\ armed' = [armed EXCEPT ![c] = FALSE]
    /\ reclosed' = (reclosed \/ connState[c] = "closed")
    /\ IF psd_client[c] = NULL
       THEN /\ connState' = [connState EXCEPT ![c] = "closed"]
            /\ UNCHANGED << clients, client, dynbuf, lock, pc, frame, owed,
                            owedPl >>
       ELSE LET a == psd_client[c] IN
            /\ pthread_mutex_lock(EvThread)
            /\ frame' = [frame EXCEPT ![EvThread] =
                   [IdleFrame EXCEPT !.op = "closed", !.conn = c,
                                     !.client = a]]
            /\ IF a \in Range(clients)
               THEN /\ clients' = Unlink(clients, a)
                    /\ dynbuf' = FreeDynamic(dynbuf, client[a].tx_buf_dynamic)
                    /\ pc' = [pc EXCEPT ![EvThread] = "rm_free"]
               ELSE /\ pc' = [pc EXCEPT ![EvThread] = "rm_unlock"]
                    /\ UNCHANGED << clients, dynbuf >>
            /\ UNCHANGED << client, connState, owed, owedPl >>
    /\ UNCHANGED << inited, cfgIn, max_clients, counter, client_counter,
                    psd_client, wire, snap, stale, issued >>

\* remove_client lines 203-207: on_disconnect(ctx, client), then free(client)
remove_client_free ==
    /\ UNCHANGED ssvars
    /\ pc[EvThread] = "rm_free"
    /\ LET f == frame[EvThread] IN
       /\ client' = [client EXCEPT ![f.client] = FreedRec]
       /\ owed' = [owed EXCEPT ![f.client] = 0]
       /\ owedPl' = [owedPl EXCEPT ![f.client] = NoPayload]
       /\ stale' = [ t \in App |->
              stale[t] \cup (Range(snap[t]) \cap {f.client}) ]
       /\ frame' = [ t \in Threads |->
              IF pc[t] = "send_call" /\ frame[t].client = f.client
              THEN [frame[t] EXCEPT !.stale = TRUE] ELSE frame[t] ]
    /\ pc' = [pc EXCEPT ![EvThread] = "rm_unlock"]
    /\ UNCHANGED << inited, cfgIn, max_clients, clients, dynbuf, counter,
                    client_counter, lock, psd_client, connState, armed, wire,
                    snap, issued, reclosed >>

\* remove_client's unlock and return, then psd->client = NULL
cb_closed_return ==
    /\ UNCHANGED ssvars
    /\ pc[EvThread] = "rm_unlock"
    /\ pthread_mutex_unlock(EvThread)
    /\ LET f == frame[EvThread] IN
       /\ psd_client' = [psd_client EXCEPT ![f.conn] = PsdAfterClose(@)]
       /\ connState' = [connState EXCEPT ![f.conn] = "closed"]
    /\ pc' = [pc EXCEPT ![EvThread] = "idle"]
    /\ frame' = [frame EXCEPT ![EvThread] = IdleFrame]
    /\ UNCHANGED << inited, cfgIn, max_clients, clients, client, dynbuf,
                    counter, client_counter, armed, wire, snap, owed, owedPl,
                    reclosed,
                    stale, issued >>

\* ------------------------------------- cb_ws, LWS_CALLBACK_SERVER_WRITEABLE
\* (the writable callback running without the lock)
writeable_lock_missing(t) == UNCHANGED lock

\* line 270: the lock taken by the writable callback
writeable_lock(t) == pthread_mutex_lock(t)

\* (the static buffer written whatever using_static says)
WriteBytes_static(rec, heap) == TakeBytes(rec.tx_buf_static, rec.tx_len)

\* lines 274-278: the bytes lws_write is given, buf + LWS_PRE for tx_len
WriteBytes(rec, heap) ==
    LET region == IF rec.using_static # 0 THEN rec.tx_buf_static
                  ELSE IF rec.tx_buf_dynamic = NULL THEN <<>>
                  ELSE heap[rec.tx_buf_dynamic].bytes
    IN  TakeBytes(region, rec.tx_len)

\* (tx_pending left set after the hand-off)
AfterWrite_keep_pending(rec) ==
    [rec EXCEPT !.tx_buf_dynamic =
                    IF rec.using_static = 0 /\ @ # NULL THEN NULL ELSE @]

\* lines 281-286: the record after the hand-off
AfterWrite(rec) ==
    [rec EXCEPT !.tx_buf_dynamic =
                    IF rec.using_static = 0 /\ @ # NULL THEN NULL ELSE @,
                !.tx_pending = 0]

\* (the write done whatever tx_pending says)
ShouldWrite_always(rec) == rec.live

\* line 272: if (client->tx_pending)
ShouldWrite(rec) == rec.live /\ rec.tx_pending # 0

\* lines 265-272: guard, lock, test of tx_pending
cb_server_writeable(c) ==
    /\ UNCHANGED ssvars
    /\ inited /\ pc[EvThread] = "idle"
    /\ armed' = [armed EXCEPT ![c] = FALSE]
    /\ IF psd_client[c] = NULL
       THEN UNCHANGED << lock, pc, frame >>
       ELSE LET a == psd_client[c] IN
            /\ writeable_lock(EvThread)
            /\ frame' = [frame EXCEPT ![EvThread] =
                   [IdleFrame EXCEPT !.op = "writeable", !.conn = c,
                                     !.client = a,
                                     !.touched = ~client[a].live]]
            /\ pc' = [pc EXCEPT ![EvThread] =
                   IF ShouldWrite(client[a])
                   THEN "w_write" ELSE "w_unlock"]
    /\ UNCHANGED << inited, cfgIn, max_clients, clients, client, dynbuf,
                    counter, client_counter, psd_client, connState, wire,
                    snap, owed, owedPl, reclosed,
                    stale, issued >>

\* lines 274-286: lws_write, free of the dynamic buffer, tx_pending = 0
cb_server_writeable_write ==
    /\ UNCHANGED ssvars
    /\ pc[EvThread] = "w_write"
    /\ LET a == frame[EvThread].client
           rec == client[a]
       IN
       /\ wire' = [ wsi |-> rec.wsi, bytes |-> WriteBytes(rec, dynbuf) ]
       /\ dynbuf' = IF rec.using_static = 0
                    THEN FreeDynamic(dynbuf, rec.tx_buf_dynamic) ELSE dynbuf
       /\ client' = [client EXCEPT ![a] = AfterWrite(rec)]
       /\ owed' = [owed EXCEPT ![a] = @ - 1]
       /\ owedPl' = [owedPl EXCEPT ![a] = NoPayload]
       /\ frame' = [frame EXCEPT ![EvThread].pl = owedPl[a]]
    /\ pc' = [pc EXCEPT ![EvThread] = "w_unlock"]
    /\ UNCHANGED << inited, cfgIn, max_clients, clients, counter,
                    client_counter, lock, psd_client, connState, armed,
                    snap, reclosed,
                    stale, issued >>

\* line 289: unlock
cb_server_writeable_return ==
    /\ UNCHANGED ssvars
    /\ pc[EvThread] = "w_unlock"
    /\ pthread_mutex_unlock(EvThread)
    /\ pc' = [pc EXCEPT ![EvThread] = "idle"]
    /\ frame' = [frame EXCEPT ![EvThread] = IdleFrame]
    /\ wire' = NoFrame
    /\ UNCHANGED << inited, cfgIn, max_clients, clients, client, dynbuf,
                    counter, client_counter, psd_client, connState, armed,
                    snap, owed, owedPl, reclosed,
                    stale, issued >>


\* ------------------------------------------------ buffer selection, malloc
\* (the threshold without the header reserve)
UseStatic_no_header(len) == len <= STATIC_BUFFER_SIZE

\* line 494: len <= sizeof(client->tx_buf_static) - LWS_PRE
UseStatic(len) == len <= STATIC_BUFFER_SIZE - LWS_PRE

\* malloc(LWS_PRE + len) when it succeeds: the lowest free buffer id
FreeBufs(heap) == { b \in Bufs : heap[b] = FreeBuf }

malloc(heap) ==
    IF FreeBufs(heap) = {} THEN NULL
    ELSE CHOOSE b \in FreeBufs(heap) : \A o \in FreeBufs(heap) : b <= o

\* (no busy test)
IsBusy_never(rec) == FALSE

\* (a busy test that misses the heap-backed sends)
IsBusy_static_only(rec) == rec.tx_pending # 0 /\ rec.using_static # 0

\* line 488 (and 539, 591): the busy test
IsBusy(rec) == rec.tx_pending # 0

\* (the inline path forgetting tx_pending)
StoreStatic_no_pending(rec, p) ==
    [rec EXCEPT !.using_static = 1,
                !.tx_buf_static = memcpy(@, p),
                !.tx_len = p.len]

\* lines 496-498: the inline path
StoreStatic(rec, p) ==
    [rec EXCEPT !.using_static = 1,
                !.tx_buf_static = memcpy(@, p),
                !.tx_len = p.len,
                !.tx_pending = 1]

\* lines 507-512: the heap path once malloc returned b # NULL
StoreDynamic(rec, p, b) ==
    [rec EXCEPT !.using_static = 0,
                !.tx_buf_dynamic = b,
                !.tx_len = p.len,
                !.tx_pending = 1]

FillDynamic(heap, p, b) ==
    [heap EXCEPT ![b] =
        [ size |-> LWS_PRE + p.len,
          bytes |-> memcpy(<< <<p.len, Uninit>> >>, p) ]]

\* (a failed malloc that still marks the record pending)
AllocFailed_pending(rec) ==
    [rec EXCEPT !.using_static = 0, !.tx_buf_dynamic = NULL, !.tx_pending = 1]

\* lines 501-506 (and 549-551, 601-603): using_static = 0, then
\* tx_buf_dynamic = malloc(..) which returned NULL
AllocFailed(rec) ==
    [rec EXCEPT !.using_static = 0, !.tx_buf_dynamic = NULL]

\* ws_raw_send_to lines 493-512 on a record that is not busy; b is what
\* malloc returns when it is called
send_store(rec, heap, p, b) ==
    IF UseStatic(p.len)
    THEN [ rec |-> StoreStatic(rec, p), heap |-> heap, ok |-> TRUE ]
    ELSE IF b = NULL
    THEN [ rec |-> AllocFailed(rec), heap |-> heap, ok |-> FALSE ]
    ELSE [ rec |-> StoreDynamic(rec, p, b), heap |-> FillDynamic(heap, p, b),
           ok |-> TRUE ]

\* ws_raw_broadcast lines 539-559 / ws_raw_broadcast_except lines 591-609 on
\* one record: the heap path is taken only when tx_buf_dynamic is NULL
bcast_store(rec, heap, p, b) ==
    IF UseStatic(p.len)
    THEN [ rec |-> StoreStatic(rec, p), heap |-> heap, ok |-> TRUE ]
    ELSE IF rec.tx_buf_dynamic # NULL
    THEN [ rec |-> rec, heap |-> heap, ok |-> FALSE ]
    ELSE IF b = NULL
    THEN [ rec |-> AllocFailed(rec), heap |-> heap, ok |-> FALSE ]
    ELSE [ rec |-> StoreDynamic(rec, p, b), heap |-> FillDynamic(heap, p, b),
           ok |-> TRUE ]

\* (nobody is left out)
Excluded_never(a, excl) == FALSE

\* line 591: client != exclude_client fails
Excluded(a, excl) == a = excl

\* the while loop of the two broadcasts: excl is the excluded pointer (NULL
\* for ws_raw_broadcast), fails the records whose malloc returns NULL
RECURSIVE bcast_loop(_, _, _, _, _, _)
bcast_loop(list, cl, heap, p, excl, fails) ==
    IF list = <<>> THEN [ cl |-> cl, heap |-> heap, sched |-> {} ]
    ELSE LET a == Head(list)
             r == IF ~Excluded(a, excl) /\ ~IsBusy(cl[a])
                  THEN bcast_store(cl[a], heap, p,
                                   IF a \in fails THEN NULL ELSE malloc(heap))
                  ELSE [ rec |-> cl[a], heap |-> heap, ok |-> FALSE ]
             rest == bcast_loop(Tail(list), [cl EXCEPT ![a] = r.rec], r.heap,
                                p, excl, fails)
         IN  [rest EXCEPT !.sched = @ \cup (IF r.ok THEN {a} ELSE {})]

\* lws_callback_on_writable(client->wsi) for every record of the set
ArmAll(set) == [ c \in Conns |->
    armed[c] \/ \E a \in set : client[a].wsi = c ]

\* ------------------------------------------------- ws_raw_get_clients
\* (the array filled from the second node on)
FillArray_skip_head(list) == IF list = <<>> THEN <<>> ELSE Tail(list)

\* lines 679-686: client_array[i] = client for every node, in list order
RECURSIVE FillArray(_)
FillArray(list) ==
    IF list = <<>> THEN <<>> ELSE <<Head(list)>> \o FillArray(Tail(list))

\* lines 656-692; got is whether malloc returned the array (line 672)
ws_raw_get_clients(t) ==
    /\ UNCHANGED ssvars
    /\ inited /\ pc[t] = "idle"
    /\ pthread_mutex_lock(t)
    /\ \E got \in BOOLEAN :
         LET arr == IF got THEN FillArray(clients) ELSE <<>>
         IN  /\ snap' = [snap EXCEPT ![t] = arr]
             /\ stale' = [stale EXCEPT ![t] = {}]
             /\ frame' = [frame EXCEPT ![t] =
                    [IdleFrame EXCEPT !.op = "get_clients",
                                      !.res = IF got THEN CountList(clients)
                                              ELSE 0]]
    /\ pc' = [pc EXCEPT ![t] = "api_unlock"]
    /\ UNCHANGED << inited, cfgIn, max_clients, clients, client, dynbuf,
                    counter, client_counter, psd_client, connState, armed,
                    wire, owed, owedPl, issued, reclosed >>

\* the unlock and return of an API call that took the lock
api_return(t) ==
    /\ UNCHANGED ssvars
    /\ pc[t] = "api_unlock"
    /\ pthread_mutex_unlock(t)
    /\ pc' = [pc EXCEPT ![t] = "idle"]
    /\ frame' = [frame EXCEPT ![t] = IdleFrame]
    /\ UNCHANGED << inited, cfgIn, max_clients, clients, client, dynbuf,
                    counter, client_counter, psd_client, connState, armed,
                    wire, snap, owed, owedPl, reclosed,
                    stale, issued >>

\* the return of an API call that refused its arguments before locking
api_return_early(t) ==
    /\ UNCHANGED ssvars
    /\ pc[t] = "api_early"
    /\ pc' = [pc EXCEPT ![t] = "idle"]
    /\ frame' = [frame EXCEPT ![t] = IdleFrame]
    /\ UNCHANGED << inited, cfgIn, max_clients, clients, client, dynbuf,
                    counter, client_counter, lock, psd_client, connState,
                    armed, wire, snap, owed, owedPl, reclosed,
                    stale, issued >>

\* the client pointers an application thread can pass: those of its array,
\* and NULL
Held(t) == Range(snap[t]) \cup {NULL}

\* ----------------------------------------------------- ws_raw_send_to
\* (the length not tested)
SendArgsInvalid_no_len(ptr, p) == ptr = NULL \/ p.data = NullData

\* line 482
SendArgsInvalid(ptr, p) == ptr = NULL \/ p.data = NullData \/ p.len = 0

\* ws_raw_send_to lines 479-513, called as op ("send_to" by the
\* application, "send" from inside ws_raw_send)
send_to_body(t, a, p, op) ==
    /\ IF SendArgsInvalid(a, p)
       THEN /\ frame' = [frame EXCEPT ![t] =
                   [IdleFrame EXCEPT !.op = op, !.res = -1]]
            /\ pc' = [pc EXCEPT ![t] = "api_early"]
            /\ UNCHANGED << lock, client, dynbuf, armed, owed, owedPl >>
       ELSE /\ pthread_mutex_lock(t)
            /\ pc' = [pc EXCEPT ![t] = "api_unlock"]
            /\ LET f == [IdleFrame EXCEPT !.op = op, !.client = a,
                                          !.pl = p,
                                          !.stale = IF op = "send_to"
                                                    THEN a \in stale[t]
                                                    ELSE frame[t].stale]
               IN
               IF ~client[a].live
               THEN \* the record was freed: tx_pending reads as anything and
                    \* the stores go to freed memory, which is where the
                    \* pointer malloc returned on the heap path is kept
                    /\ \E r \in {0, -1} :
                         LET b == IF r = 0 /\ ~UseStatic(p.len)
                                  THEN malloc(dynbuf) ELSE NULL
                         IN  /\ (r = 0 /\ ~UseStatic(p.len)) => b # NULL
                             /\ dynbuf' = IF b = NULL THEN dynbuf
                                          ELSE FillDynamic(dynbuf, p, b)
                             /\ frame' = [frame EXCEPT ![t] =
                                    [f EXCEPT !.res = r, !.touched = TRUE]]
                    /\ UNCHANGED << client, armed, owed, owedPl >>
               ELSE IF IsBusy(client[a])
               THEN /\ frame' = [frame EXCEPT ![t] = [f EXCEPT !.res = -1]]
                    /\ UNCHANGED << client, dynbuf, armed, owed, owedPl >>
               ELSE \E b \in {NULL, malloc(dynbuf)} :
                    LET r == send_store(client[a], dynbuf, p, b) IN
                    /\ client' = [client EXCEPT ![a] = r.rec]
                    /\ dynbuf' = r.heap
                    /\ armed' = IF r.ok THEN ArmAll({a}) ELSE armed
                    /\ owed' = IF r.ok THEN [owed EXCEPT ![a] = @ + 1]
                               ELSE owed
                    /\ owedPl' = IF r.ok THEN [owedPl EXCEPT ![a] = p]
                                 ELSE owedPl
                    /\ frame' = [frame EXCEPT ![t] =
                           [f EXCEPT !.res = IF r.ok THEN 0 ELSE -1,
                                     !.sched = IF r.ok THEN {a} ELSE {}]]
    /\ UNCHANGED << inited, cfgIn, max_clients, clients, counter,
                    client_counter, psd_client, connState, wire, snap, reclosed,
                    stale, issued >>

ws_raw_send_to(t, a, p) ==
    /\ UNCHANGED ssvars
    /\ inited /\ pc[t] = "idle"
    /\ send_to_body(t, a, p, "send_to")

\* ------------------------------------------------------- ws_raw_send
\* lines 710-717: lock, read ctx->clients.  data and len are only passed on
\* at line 720, so they are drawn there.
ws_raw_send(t) ==
    /\ UNCHANGED ssvars
    /\ inited /\ pc[t] = "idle"
    /\ pthread_mutex_lock(t)
    /\ IF clients = <<>>
       THEN /\ pc' = [pc EXCEPT ![t] = "api_unlock"]
            /\ frame' = [frame EXCEPT ![t] =
                   [IdleFrame EXCEPT !.op = "send", !.res = -1]]
       ELSE /\ pc' = [pc EXCEPT ![t] = "send_unlock"]
            /\ frame' = [frame EXCEPT ![t] =
                   [IdleFrame EXCEPT !.op = "send",
                                     !.client = Head(clients)]]
    /\ UNCHANGED << inited, cfgIn, max_clients, clients, client, dynbuf,
                    counter, client_counter, psd_client, connState, armed,
                    wire, snap, owed, owedPl, stale, issued, reclosed >>

\* line 718: the unlock before the call of ws_raw_send_to
ws_raw_send_unlock(t) ==
    /\ UNCHANGED ssvars
    /\ pc[t] = "send_unlock"
    /\ pthread_mutex_unlock(t)
    /\ pc' = [pc EXCEPT ![t] = "send_call"]
    /\ UNCHANGED << inited, cfgIn, max_clients, clients, client, dynbuf,
                    counter, client_counter, psd_client, connState, armed,
                    wire, frame, snap, owed, owedPl, stale, issued, reclosed >>

\* line 720: ws_raw_send_to(ctx, client, data, len) with the pointer read
\* at line 717
ws_raw_send_call(t, p) ==
    /\ UNCHANGED ssvars
    /\ pc[t] = "send_call"
    /\ send_to_body(t, frame[t].client, p, "send")

\* ---------------------------- ws_raw_broadcast, ws_raw_broadcast_except
\* (the length not tested)
BcastArgsInvalid_data_only(p) == p.data = NullData

\* lines 532, 582: !data || !len
BcastArgsInvalid(p) == p.data = NullData \/ p.len = 0

\* ws_raw_broadcast returns 0 on every path (lines 533, 564)
BroadcastRet(sched) == 0

\* ws_raw_broadcast_except returns scheduled (line 615)
BroadcastExceptRet(sched) == Cardinality(sched)

\* the value returned for bad arguments (lines 533, 583)
BcastEarly(op) == IF op = "broadcast" THEN 0 ELSE -1

\* the two broadcasts share their loop
bcast(t, op, excl, p) ==
    /\ UNCHANGED ssvars
    /\ inited /\ pc[t] = "idle"
    /\ IF BcastArgsInvalid(p)
       THEN /\ frame' = [frame EXCEPT ![t] =
                   [IdleFrame EXCEPT !.op = op, !.res = BcastEarly(op)]]
            /\ pc' = [pc EXCEPT ![t] = "api_early"]
            /\ UNCHANGED << lock, client, dynbuf, armed, owed, owedPl >>
       ELSE /\ pthread_mutex_lock(t)
            /\ pc' = [pc EXCEPT ![t] = "api_unlock"]
            /\ \E fails \in (IF UseStatic(p.len) THEN {{}}
                             ELSE SUBSET Range(clients)) :
                 LET r == bcast_loop(clients, client, dynbuf, p, excl, fails)
                 IN
                 /\ client' = r.cl
                 /\ dynbuf' = r.heap
                 /\ armed' = ArmAll(r.sched)
                 /\ owed' = [ a \in Addrs |->
                        IF a \in r.sched THEN owed[a] + 1 ELSE owed[a] ]
                 /\ owedPl' = [ a \in Addrs |->
                        IF a \in r.sched THEN p ELSE owedPl[a] ]
                 /\ frame' = [frame EXCEPT ![t] =
                        [IdleFrame EXCEPT !.op = op, !.client = excl,
                                          !.pl = p, !.sched = r.sched,
                                          !.res = IF op = "broadcast"
                                                  THEN BroadcastRet(r.sched)
                                                  ELSE BroadcastExceptRet(r.sched)]]
    /\ UNCHANGED << inited, cfgIn, max_clients, clients, counter,
                    client_counter, psd_client, connState, wire, snap, reclosed,
                    stale, issued >>

ws_raw_broadcast(t, p) == bcast(t, "broadcast", NULL, p)

ws_raw_broadcast_except(t, e, p) == bcast(t, "broadcast_except", e, p)

\* ------------------------------------------------------ specification
\* ======================================================================
\* The secure-stream server session (src/include/custom/ss_server.c) and
\* the command handler (src/include/custom/syko_handler.c).  The callbacks
\* server_srv_state, server_srv_rx and server_srv_tx run on the one service
\* loop of main(), so each runs to its end before the next starts; the
\* response buffer is the user object g (payload[200], size, pos).
\* ======================================================================
\* sizeof(g->payload), ss_server.h line 10
PAYLOAD_SIZE == 200
\* data bytes of one struct can_frame (the literal 8 of sendCanMjs)
CAN_MAX_DLEN == 8

\* longest message handed to sendCanMjs (0..MaxMjsLen bytes)
MaxMjsLen == 17
\* the smaller of the two buffer lengths the transport offers to
\* server_srv_tx; the larger one takes any response whole
MinTxLen == 64
TxLens == {MinTxLen, MinTxLen + 2 * PAYLOAD_SIZE}
\* decimal digits of lws_now_usecs() printed by "%lu"
UsecDigits == {16}

Min(a, b) == IF a < b THEN a ELSE b
Max(a, b) == IF a > b THEN a ELSE b

\* ------------------------------------------------ strings and cJSON values
\* strlen of the string literals of syko_handler.c
strlen(s) ==
    CASE s = "version" -> 7
      [] s = "1.2.3" -> 5
      [] s = "sequence" -> 8
      [] s = "response" -> 8
      [] s = "status" -> 6
      [] s = "unknown-command" -> 15
      [] s = "not_found" -> 9
      [] s = "ok" -> 2
      [] s = "remotegui/device-info" -> 21
      [] s = "remotegui/program-vehicle" -> 25
      [] s = "button" -> 6
      [] s = "EXIT" -> 4
      [] s = "DONE" -> 4
      [] s = "title" -> 5
      [] s = "DEVICE INFO" -> 11
      [] s = "type" -> 4
      [] s = "message" -> 7
      [] s = "This message contains formatted text of device info." -> 52
      [] s = "Hello World: " -> 13

cJSON_CreateString(s) == [t |-> "string", s |-> s]
cJSON_CreateNumber(n) == [t |-> "number", n |-> n]
\* an array holds its items, an object its <<name, item>> members, in the
\* order they were added
cJSON_CreateArray(items) == [t |-> "array", items |-> items]
cJSON_CreateObject(members) == [t |-> "object", members |-> members]

RECURSIVE Digits(_)
Digits(n) == IF n < 10 THEN 1 ELSE 1 + Digits(n \div 10)

\* cJSON_PrintUnformatted followed by strlen: a string is printed between
\* quotes (none of the literals needs an escape), an integer by its digits,
\* an array as [item,item], an object as {"name":item,"name":item}
RECURSIVE PrintLen(_, _)
PrintLen(kind, x) ==
    CASE kind = "value" /\ x.t = "string" -> strlen(x.s) + 2
      [] kind = "value" /\ x.t = "number" -> Digits(x.n)
      [] kind = "value" /\ x.t = "array" ->
             2 + PrintLen("items", x.items) + Max(Len(x.items) - 1, 0)
      [] kind = "value" /\ x.t = "object" ->
             2 + PrintLen("members", x.members) + Max(Len(x.members) - 1, 0)
      [] kind = "items" ->
             IF x = <<>> THEN 0
             ELSE PrintLen("value", Head(x)) + PrintLen("items", Tail(x))
      [] kind = "members" ->
             IF x = <<>> THEN 0
             ELSE strlen(Head(x)[1]) + 2 + 1 + PrintLen("value", Head(x)[2])
                    + PrintLen("members", Tail(x))

cJSON_PrintUnformatted(json) == PrintLen("value", json)

\* syko_handler.c lines 149-160
unknown_command_fnc ==
    cJSON_CreateObject(<<
        <<"version", cJSON_CreateString("1.2.3")>>,
        <<"sequence", cJSON_CreateNumber(100)>>,
        <<"response", cJSON_CreateString("unknown-command")>>,
        <<"status", cJSON_CreateString("not_found")>> >>)

\* syko_handler.c lines 162-186
remotegui_device_info_fnc ==
    cJSON_CreateObject(<<
        <<"remotegui/device-info", cJSON_CreateObject(<<
            <<"button", cJSON_CreateArray(<<
                cJSON_CreateString("EXIT"), cJSON_CreateString("DONE") >>)>>,
            <<"title", cJSON_CreateString("DEVICE INFO")>>,
            <<"type", cJSON_CreateString("message")>>,
            <<"message", cJSON_CreateString(
                "This message contains formatted text of device info.")>> >>)>>,
        <<"version", cJSON_CreateString("1.2.3")>>,
        <<"sequence", cJSON_CreateNumber(100)>>,
        <<"response", cJSON_CreateString("remotegui/device-info")>>,
        <<"status", cJSON_CreateString("ok")>> >>)

\* syko_handler.c lines 188-200 (the object; its call of sendCanMjs is the
\* step server_srv_rx_can below)
remotegui_program_vehicle_fnc ==
    cJSON_CreateObject(<<
        <<"version", cJSON_CreateString("1.2.3")>>,
        <<"sequence", cJSON_CreateNumber(120)>>,
        <<"response", cJSON_CreateString("remotegui/program-vehicle")>>,
        <<"status", cJSON_CreateString("ok")>> >>)

\* ------------------------------------------------------ inbound messages
\* What cJSON_Parse makes of the received text: json says whether it parses
\* at all; sequence and request are the members of that name, Absent when
\* the object has none; a request that is not a JSON string has a NULL
\* valuestring (NotAString).
Absent == "<absent>"
NotAString == "<not a string>"
RequestStrings ==
    { "get/basic-config", "get/full-config", "get/available-features",
      "remotegui/device-info", "remotegui/vehicle-info", "remotegui/read-dtc",
      "remotegui/clear-dtc", "remotegui/program-vehicle", "remotegui/datalog",
      "remotegui/user-input", "remotegui/other" }
NoRoot == [json |-> FALSE, sequence |-> Absent, request |-> Absent]
InboundMessages ==
    {NoRoot} \cup
    [ json : {TRUE}, sequence : {Absent, "number"},
      request : {Absent, NotAString} \cup RequestStrings ]

\* cJSON_Parse: the root, NoRoot standing for NULL
cJSON_Parse(msg) == IF msg.json THEN msg ELSE NoRoot

\* cJSON_GetObjectItemCaseSensitive: NULL for a NULL object or a missing name
cJSON_GetObjectItemCaseSensitive(root, name) ==
    IF ~root.json THEN Absent
    ELSE IF name = "sequence" THEN root.sequence ELSE root.request

\* syko_handler.c lines 87-123
sykoCommandsTranslate(command_request) ==
    CASE command_request = "get/basic-config" -> "get_basic_config"
      [] command_request = "get/full-config" -> "get_full_config"
      [] command_request = "get/available-features" -> "get_available_features"
      [] command_request = "remotegui/device-info" -> "remotegui_device_info"
      [] command_request = "remotegui/vehicle-info" -> "remotegui_vehicle_info"
      [] command_request = "remotegui/read-dtc" -> "remotegui_read_dtc"
      [] command_request = "remotegui/clear-dtc" -> "remotegui_clear_dtc"
      [] command_request = "remotegui/program-vehicle" ->
             "remotegui_program_vehicle"
      [] command_request = "remotegui/datalog" -> "remotegui_datalog"
      [] command_request = "remotegui/user-input" -> "remotegui_user_input"
      [] OTHER -> "unknown_command"

\* the outcome of reading a member through a NULL pointer
NullDeref == "SIGSEGV"

\* syko_handler.c lines 125-132.  comando->valueint is read only as an
\* argument of lwsl_user (line 129), so a build without logging (logs FALSE)
\* does not evaluate it; request->valuestring is read at line 131 in every
\* build, and a NULL valuestring is read by strcmp at line 89.
sykoCommandsHandler(root, logs) ==
    LET comando == cJSON_GetObjectItemCaseSensitive(root, "sequence")
        request == cJSON_GetObjectItemCaseSensitive(root, "request")
    IN  IF logs /\ comando = Absent THEN NullDeref
        ELSE IF request = Absent THEN NullDeref
        ELSE IF request = NotAString THEN NullDeref
        ELSE sykoCommandsTranslate(request)

\* ss_server.c lines 20-38: the response built for a command
ResponseFor(command) ==
    CASE command = "remotegui_device_info" ->
             [name |-> "remotegui/device-info",
              len |-> cJSON_PrintUnformatted(remotegui_device_info_fnc)]
      [] command = "remotegui_program_vehicle" ->
             [name |-> "remotegui/program-vehicle",
              len |-> cJSON_PrintUnformatted(remotegui_program_vehicle_fnc)]
      [] OTHER ->
             [name |-> "unknown-command",
              len |-> cJSON_PrintUnformatted(unknown_command_fnc)]

\* ss_server.c line 103: lws_snprintf(g->payload, sizeof(g->payload),
\* "Hello World: %lu", now) returns the length written, NUL excluded
HelloWorld(digits) ==
    [name |-> "Hello World", len |-> Min(strlen("Hello World: ") + digits,
                                         PAYLOAD_SIZE - 1)]
NoResponse == [name |-> "none", len |-> 0]

\* ---------------------------------------------------------- CAN messages
\* "program_ecu" (syko_handler.c line 197)
program_ecu == << 112, 114, 111, 103, 114, 97, 109, 95, 101, 99, 117 >>
\* a message of n non-zero bytes, every byte different from its neighbours
Mjs(n) == [ i \in 1..n |-> 1 + ((i * 37) % 255) ]
Zeros(n) == [ i \in 1..n |-> 0 ]
NoMjs == << >>

\* syko_handler.c line 42
FrameDlc(bytes_missing) ==
    IF bytes_missing > CAN_MAX_DLEN THEN CAN_MAX_DLEN ELSE bytes_missing

\* (the tail of a short frame left as the previous frame had it)
FrameData_no_memset(old, mjs, bytes_sent, dlc) ==
    SubSeq(mjs, bytes_sent + 1, bytes_sent + dlc)
      \o SubSeq(old, dlc + 1, CAN_MAX_DLEN)

\* syko_handler.c lines 45-50: memcpy of the slice, memset of the rest
FrameData(old, mjs, bytes_sent, dlc) ==
    SubSeq(mjs, bytes_sent + 1, bytes_sent + dlc)
      \o (IF dlc < CAN_MAX_DLEN THEN Zeros(CAN_MAX_DLEN - dlc)
          ELSE SubSeq(old, dlc + 1, CAN_MAX_DLEN))

\* sizeof(struct can_frame) and what write() may return instead
CAN_MTU == 16
WriteResults == {CAN_MTU, -1, CAN_MAX_DLEN}
IdleCan ==
    [ pc |-> "idle", mjs |-> NoMjs, len |-> 0, bytes_sent |-> 0,
      data |-> Zeros(CAN_MAX_DLEN) ]

\* what server_srv_tx hands back through buf, len and flags
NoChunk ==
    [ name |-> "none", from |-> 0, len |-> 0, som |-> FALSE, eom |-> FALSE ]
NoStream == [ open |-> FALSE, name |-> "none", next |-> 0 ]

\* the message on the wire after a chunk: open until its EOM chunk
StreamAfter(chunk) ==
    IF chunk.eom THEN NoStream
    ELSE [ open |-> TRUE, name |-> chunk.name, next |-> chunk.from + chunk.len ]

\* ------------------------------------------------------ server_srv_state
\* ss_server.c lines 82-110.  md_ok: lws_ss_set_metadata returned 0.
server_srv_state(state, md_ok, digits) ==
    /\ ss_pc = "idle"
    /\ ss_cb' = "state"
    /\ CASE state = "CREATING" ->
              /\ ss_state = "none"
              /\ ss_state' = "created"
              /\ ss_tx_req' = TRUE
              /\ ss_ret' = "OK"
              /\ UNCHANGED << userobj, stream >>
         [] state = "SERVER_TXN" ->
              /\ ss_state = "created"
              /\ IF md_ok
                 THEN /\ userobj' = [ payload |-> HelloWorld(digits),
                                size |-> HelloWorld(digits).len, pos |-> 0 ]
                      /\ ss_state' = "txn"
                      /\ ss_tx_req' = TRUE
                      /\ ss_ret' = "OK"
                      /\ UNCHANGED stream
                 ELSE /\ ss_ret' = "DISCONNECT_ME"
                      /\ ss_state' = "created"
                      /\ ss_tx_req' = FALSE
                      /\ stream' = NoStream
                      /\ UNCHANGED userobj
         [] state = "DISCONNECTED" ->
              /\ ss_state = "txn"
              /\ ss_state' = "created"
              /\ ss_tx_req' = FALSE
              /\ stream' = NoStream
              /\ ss_ret' = "OK"
              /\ UNCHANGED userobj
    /\ tx_out' = NoChunk
    /\ UNCHANGED << overrun, ss_pc, received_command, can, s_writes >>
    /\ UNCHANGED wsvars

\* --------------------------------------------------------- server_srv_rx
StartCan(mjs, len) ==
    [ pc |-> "loop", mjs |-> mjs, len |-> len, bytes_sent |-> 0,
      data |-> Zeros(CAN_MAX_DLEN) ]

\* ss_server.c lines 10-38, up to the response object being built.  mem:
\* malloc(len + 1) returned memory; logs: the build evaluates lwsl_user's
\* arguments.
server_srv_rx(msg, mem, logs) ==
    /\ ss_pc = "idle"
    /\ ss_state = "txn"
    /\ ss_cb' = "rx"
    /\ tx_out' = NoChunk
    /\ IF ~mem
       THEN /\ ss_ret' = "DISCONNECT_ME"
            /\ UNCHANGED << ss_pc, received_command, can, s_writes >>
       ELSE LET cmd == sykoCommandsHandler(cJSON_Parse(msg), logs) IN
            IF cmd = NullDeref
            THEN /\ ss_pc' = "crashed"
                 /\ ss_ret' = NullDeref
                 /\ UNCHANGED << received_command, can, s_writes >>
            ELSE /\ received_command' = cmd
                 /\ ss_ret' = "running"
                 /\ IF cmd = "remotegui_program_vehicle"
                    THEN /\ ss_pc' = "rx_can"
                         /\ can' = StartCan(program_ecu, Len(program_ecu))
                         /\ s_writes' = << >>
                    ELSE /\ ss_pc' = "rx_respond"
                         /\ UNCHANGED << can, s_writes >>
    /\ UNCHANGED << userobj, overrun, ss_state, ss_tx_req, stream >>
    /\ UNCHANGED wsvars

\* the outcomes of memcpy writing past the end of g->payload
MemoryFault == "memory fault"
OverrunOutcomes == {"OK", MemoryFault}

\* ss_server.c lines 43-44: memcpy(g->payload, json_res_str, len_to_send);
\* g->size = len_to_send
StoreLen(len_to_send) == len_to_send

\* ss_server.c lines 40-52: print, copy into g->payload, request tx
server_srv_rx_respond(outcome) ==
    /\ ss_pc = "rx_respond"
    /\ LET rsp == ResponseFor(received_command)
           len_to_send == rsp.len
           copied == StoreLen(len_to_send)
       IN  /\ userobj' = [ payload |-> [ name |-> rsp.name,
                                   len |-> Min(copied, PAYLOAD_SIZE) ],
                     size |-> copied, pos |-> 0 ]
           /\ overrun' = Max(copied - PAYLOAD_SIZE, 0)
           /\ IF copied > PAYLOAD_SIZE
              THEN /\ outcome \in OverrunOutcomes
                   /\ ss_ret' = outcome
                   /\ ss_pc' = IF outcome = "OK" THEN "idle" ELSE "crashed"
              ELSE /\ outcome = "OK"
                   /\ ss_ret' = "OK"
                   /\ ss_pc' = "idle"
    /\ ss_tx_req' = TRUE
    /\ ss_cb' = "rx"
    /\ UNCHANGED << ss_state, tx_out, stream, received_command, can,
                    s_writes >>
    /\ UNCHANGED wsvars

\* ------------------------------------------------------------ sendCanMjs
\* a call of sendCanMjs(mjs, len) from outside the session (syko_handler.h
\* line 34), lines 33-38
sendCanMjs(len) ==
    /\ ss_pc = "idle"
    /\ ss_pc' = "can"
    /\ can' = StartCan(Mjs(len), len)
    /\ s_writes' = << >>
    /\ UNCHANGED << userobj, overrun, ss_state, ss_tx_req, ss_ret, ss_cb,
                    tx_out, stream, received_command >>
    /\ UNCHANGED wsvars

\* the function whose body called sendCanMjs goes on
CanCaller == IF ss_pc = "rx_can" THEN "rx_respond" ELSE "idle"

\* syko_handler.c lines 40-62: one turn of the loop; nbytes is what write()
\* returned
sendCanMjs_frame(nbytes) ==
    /\ can.pc = "loop"
    /\ can.bytes_sent < can.len
    /\ LET bytes_missing == can.len - can.bytes_sent
           can_dlc == FrameDlc(bytes_missing)
           data == FrameData(can.data, can.mjs, can.bytes_sent, can_dlc)
       IN  /\ s_writes' = Append(s_writes,
                  [ can_dlc |-> can_dlc, data |-> data, nbytes |-> nbytes ])
           /\ IF nbytes # CAN_MTU
              THEN /\ can' = [can EXCEPT !.pc = "failed", !.data = data]
                   /\ ss_pc' = CanCaller
              ELSE /\ can' = [can EXCEPT !.data = data,
                                         !.bytes_sent = @ + can_dlc]
                   /\ UNCHANGED ss_pc
    /\ UNCHANGED << userobj, overrun, ss_state, ss_tx_req, ss_ret, ss_cb,
                    tx_out, stream, received_command >>
    /\ UNCHANGED wsvars

\* syko_handler.c lines 40, 64-65: the loop ends, the function returns
sendCanMjs_return ==
    /\ can.pc = "loop"
    /\ ~(can.bytes_sent < can.len)
    /\ can' = [can EXCEPT !.pc = "sent"]
    /\ ss_pc' = CanCaller
    /\ UNCHANGED << userobj, overrun, ss_state, ss_tx_req, ss_ret, ss_cb,
                    tx_out, stream, received_command, s_writes >>
    /\ UNCHANGED wsvars

\* --------------------------------------------------------- server_srv_tx
\* ss_server.c lines 55-80.  len is the room the transport offers in buf.
server_srv_tx(len) ==
    /\ ss_pc = "idle"
    /\ ss_tx_req
    /\ ss_cb' = "tx"
    /\ IF userobj.size = userobj.pos
       THEN /\ ss_ret' = "TX_DONT_SEND"
            /\ ss_tx_req' = FALSE
            /\ tx_out' = NoChunk
            /\ UNCHANGED << userobj, stream >>
       ELSE LET n == IF len > userobj.size - userobj.pos
                     THEN userobj.size - userobj.pos ELSE len
                chunk == [ name |-> userobj.payload.name, from |-> userobj.pos,
                           len |-> n, som |-> (userobj.pos = 0),
                           eom |-> (userobj.pos + n = userobj.size) ]
            IN  /\ userobj' = [userobj EXCEPT !.pos = @ + n]
                /\ tx_out' = chunk
                /\ ss_tx_req' = (userobj.pos + n # userobj.size)
                /\ stream' = StreamAfter(chunk)
                /\ ss_ret' = "OK"
    /\ UNCHANGED << overrun, ss_state, ss_pc, received_command, can,
                    s_writes >>
    /\ UNCHANGED wsvars

\* ------------------------------------------------------------------ Init
Init ==
    /\ inited = FALSE
    /\ cfgIn \in 0..MaxCfg
    /\ max_clients = 0
    /\ clients = <<>>
    /\ client = [ a \in Addrs |-> FreedRec ]
    /\ dynbuf = [ b \in Bufs |-> FreeBuf ]
    /\ counter = 0
    /\ client_counter = 0
    /\ lock = NoOwner
    /\ psd_client = [ c \in Conns |-> NULL ]
    /\ connState = [ c \in Conns |-> "new" ]
    /\ armed = [ c \in Conns |-> FALSE ]
    /\ wire = NoFrame
    /\ pc = [ t \in Threads |-> "idle" ]
    /\ frame = [ t \in Threads |-> IdleFrame ]
    /\ snap = [ t \in App |-> <<>> ]
    /\ owed = [ a \in Addrs |-> 0 ]
    /\ owedPl = [ a \in Addrs |-> NoPayload ]
    /\ stale = [ t \in App |-> {} ]
    /\ issued = <<>>
    /\ reclosed = FALSE
    /\ userobj = [ payload |-> NoResponse, size |-> 0, pos |-> 0 ]
    /\ overrun = 0
    /\ ss_state = "none"
    /\ ss_pc = "idle"
    /\ ss_tx_req = FALSE
    /\ ss_ret = "none"
    /\ ss_cb = "none"
    /\ tx_out = NoChunk
    /\ stream = NoStream
    /\ received_command = "unknown_command"
    /\ can = IdleCan
    /\ s_writes = << >>

Next ==
    \/ ws_raw_init
    \/ \E c \in Conns : cb_established(c)
    \/ cb_established_return
    \/ \E c \in Conns : cb_closed(c)
    \/ remove_client_free
    \/ cb_closed_return
    \/ \E c \in Conns : cb_server_writeable(c)
    \/ cb_server_writeable_write
    \/ cb_server_writeable_return
    \/ \E t \in App : ws_raw_get_clients(t)
    \/ \E t \in App : \E e \in Held(t), p \in Payloads :
           ws_raw_send_to(t, e, p)
    \/ \E t \in App, p \in Payloads : ws_raw_broadcast(t, p)
    \/ \E t \in App : \E e \in Held(t), p \in Payloads :
           ws_raw_broadcast_except(t, e, p)
    \/ \E t \in App : api_return(t)
    \/ \E t \in App : api_return_early(t)
    \/ on_connect_return
    \/ hook_call_count
    \/ \E t \in Threads : ws_raw_client_count(t)
    \/ hook_count_return
    \/ \E c \in Conns, m \in RxMessages : cb_receive(c, m)
    \/ cb_receive_return
    \/ \E t \in App : ws_raw_send(t)
    \/ \E t \in App : ws_raw_send_unlock(t)
    \/ \E t \in App, p \in Payloads : ws_raw_send_call(t, p)

Spec == Init /\ [][Next]_vars

\* ------------------------------------- specification with scheduling
\* The callbacks and the application sending through ws_raw_send.
NextLive ==
    \/ ws_raw_init
    \/ \E c \in Conns : cb_established(c)
    \/ cb_established_return
    \/ on_connect_return
    \/ \E c \in Conns : cb_closed(c)
    \/ hook_call_count
    \/ \E t \in Threads : ws_raw_client_count(t)
    \/ hook_count_return
    \/ remove_client_free
    \/ cb_closed_return
    \/ \E c \in Conns : cb_server_writeable(c)
    \/ cb_server_writeable_write
    \/ cb_server_writeable_return
    \/ \E t \in App : ws_raw_send(t)
    \/ \E t \in App : ws_raw_send_unlock(t)
    \/ \E t \in App, p \in Payloads : ws_raw_send_call(t, p)
    \/ \E t \in App : api_return(t)
    \/ \E t \in App : api_return_early(t)

\* a callback or hook that has started runs to its end
EvContinues ==
    \/ cb_established_return
    \/ on_connect_return
    \/ hook_count_return
    \/ remove_client_free
    \/ cb_closed_return
    \/ cb_server_writeable_write
    \/ cb_server_writeable_return

\* an API call that has started runs to its end
AppContinues(t) ==
    \/ ws_raw_send_unlock(t)
    \/ \E p \in Payloads : ws_raw_send_call(t, p)
    \/ api_return(t)
    \/ api_return_early(t)

\* the transport delivers the writable notification of an armed connection
WritableDelivered(c) == armed[c] /\ cb_server_writeable(c)

\* Threads keep running and a hook returns after finitely many calls; a
\* thread waiting for the mutex gets it when it is released again and again;
\* armed writable requests are delivered.
Fairness ==
    /\ WF_vars(EvContinues)
    /\ SF_vars(on_connect_return)
    /\ SF_vars(remove_client_free)
    /\ \A t \in App : SF_vars(AppContinues(t))
    /\ SF_vars(ws_raw_client_count(EvThread))
    /\ \A c \in Conns : SF_vars(WritableDelivered(c))

SpecLive == Init /\ [][NextLive]_vars /\ Fairness

\* ----------------------------- specification of the secure-stream session
NextSS ==
    \/ \E state \in {"CREATING", "SERVER_TXN", "DISCONNECTED"},
          md_ok \in BOOLEAN, digits \in UsecDigits :
           server_srv_state(state, md_ok, digits)
    \/ \E msg \in InboundMessages, mem \in BOOLEAN, logs \in BOOLEAN :
           server_srv_rx(msg, mem, logs)
    \/ \E outcome \in OverrunOutcomes : server_srv_rx_respond(outcome)
    \/ \E len \in TxLens : server_srv_tx(len)
    \/ \E len \in 0..MaxMjsLen : sendCanMjs(len)
    \/ \E nbytes \in WriteResults : sendCanMjs_frame(nbytes)
    \/ sendCanMjs_return

SpecSS == Init /\ [][NextSS]_vars


\* ==================================================== checked properties
\* a thread is inside a critical section
InCS(t) ==
    \/ pc[t] \in {"add_unlock", "rm_free", "rm_unlock", "w_write", "w_unlock",
                  "api_unlock", "hc_unlock", "send_unlock"}
    \/ pc[t] = "hc_wait" /\ frame[t].op = "closed"

\* thread t takes this step into ws_raw_send_to's critical section
SendStep(t) ==
    pc[t] = "idle" /\ pc'[t] = "api_unlock" /\ frame'[t].op = "send_to"

\* the service thread takes the hand-off step of the writable callback
HandOffStep == pc[EvThread] = "w_write" /\ pc'[EvThread] = "w_unlock"

\* the service thread takes the add_client step
RegisterStep == pc[EvThread] = "idle" /\ pc'[EvThread] = "add_unlock"

\* C1: with a configured capacity M > 0 the registry never holds more than M
\* clients, and a register attempted while M clients are registered returns
\* no client and leaves the registry, the records and the count unchanged.
C1_CapacityEnforced ==
    [][ /\ (max_clients' > 0 => Len(clients') <= max_clients')
        /\ (RegisterStep /\ cfgIn > 0 /\ Len(clients) >= cfgIn)
             => /\ frame'[EvThread].client = NULL
                /\ clients' = clients
                /\ client' = client
                /\ client_counter' = client_counter ]_vars

C1_Witness ==
    /\ cfgIn > 0
    /\ Len(clients) = cfgIn
    /\ \E c \in Conns : connState[c] = "refused_cap"

\* C2: a ws_raw_send_to issued while an earlier successful send to the same
\* client has not been handed off returns -1, and the client's buffers, length
\* and storage selection stay those of the first payload.
C2_BusyRefused ==
    [][ \A t \in App :
          LET a == frame'[t].client IN
          (SendStep(t) /\ client[a].live /\ owed[a] = 1)
            => /\ frame'[t].res = -1
               /\ client'[a] = client[a]
               /\ dynbuf' = dynbuf
               /\ WriteBytes(client'[a], dynbuf') = PayloadBytes(owedPl[a])
               /\ client'[a].tx_len = owedPl[a].len
               /\ client'[a].using_static
                    = (IF UseStatic(owedPl[a].len) THEN 1 ELSE 0) ]_vars

C2_Witness ==
    \E t \in App :
        /\ pc[t] = "api_unlock" /\ frame[t].op = "send_to"
        /\ frame[t].res = -1 /\ ~frame[t].touched
        /\ client[frame[t].client].live
        /\ owed[frame[t].client] = 1
        /\ owedPl[frame[t].client] # frame[t].pl

\* C3: for every client, successful schedulings and writable hand-offs
\* alternate (never two schedulings outstanding, never a hand-off without
\* one), and each hand-off gives the transport exactly the bytes of the
\* scheduling it answers, on that client's connection.
C3_Alternation ==
    [][ /\ \A a \in Addrs : owed'[a] \in {0, 1}
        /\ HandOffStep =>
             LET a == frame[EvThread].client IN
             /\ owed[a] = 1
             /\ owed'[a] = 0
             /\ wire' = [ wsi |-> client[a].wsi,
                          bytes |-> PayloadBytes(owedPl[a]) ] ]_vars

C3_Witness ==
    /\ pc[EvThread] = "w_unlock"
    /\ wire.bytes = << <<STATIC_BUFFER_SIZE - LWS_PRE + 1, 120>> >>
    /\ client[frame[EvThread].client].tx_buf_static
         = << <<STATIC_BUFFER_SIZE - LWS_PRE, 101>> >>

\* a completed hand-off precedes: the record carries a length and is idle
AfterHandOff(a) ==
    client[a].live /\ client[a].tx_len # 0 /\ client[a].tx_pending = 0

\* C4 as stated: after the writable callback of a pending client completes,
\* tx_pending is false and the next valid send to that client succeeds.
C4_Original ==
    [][ /\ HandOffStep => client'[frame[EvThread].client].tx_pending = 0
        /\ \A t \in App :
             (SendStep(t) /\ AfterHandOff(frame'[t].client))
               => frame'[t].res = 0 ]_vars

\* C4 amended: ... tx_pending is false and the next valid send to that client
\* is not refused as busy: it succeeds unless the payload needs a heap buffer
\* and malloc fails.
C4_NotBusyAfterHandOff ==
    [][ /\ HandOffStep => client'[frame[EvThread].client].tx_pending = 0
        /\ \A t \in App :
             LET a == frame'[t].client IN
             (SendStep(t) /\ AfterHandOff(a))
               => \/ /\ frame'[t].res = 0
                     /\ client'[a].tx_pending = 1
                  \/ /\ frame'[t].res = -1
                     /\ ~UseStatic(frame'[t].pl.len)
                     /\ client'[a].tx_buf_dynamic = NULL
                     /\ dynbuf' = dynbuf ]_vars

C4_Witness ==
    \E t \in App :
        /\ pc[t] = "api_unlock" /\ frame[t].op = "send_to"
        /\ frame[t].res = 0
        /\ client[frame[t].client].using_static = 0
        /\ client[frame[t].client].tx_buf_static
             = << <<STATIC_BUFFER_SIZE - LWS_PRE, 101>> >>

\* C5: a ws_raw_send_to on a client that was unregistered after its pointer
\* was taken from a snapshot returns an error and does not touch the freed
\* record.
C5_StaleSendRefused ==
    \A t \in App :
        (pc[t] = "api_unlock" /\ frame[t].op = "send_to" /\ frame[t].stale)
          => (frame[t].res = -1 /\ ~frame[t].touched)

\* C6: teardown never races with a send: every record on the list is
\* allocated and so is the heap buffer it points to, the writable callback
\* and remove_client act on allocated records only, and a thread inside a
\* critical section owns the lock (so no two threads are inside at once).
C6_NoTeardownRace ==
    /\ \A a \in Range(clients) : client[a].live
    /\ \A a \in Range(clients) :
         client[a].tx_buf_dynamic # NULL
           => dynbuf[client[a].tx_buf_dynamic] # FreeBuf
    /\ ~frame[EvThread].touched
    /\ pc[EvThread] \in {"w_write", "rm_free"}
         => client[frame[EvThread].client].live
    /\ \A t \in Threads : InCS(t) => lock = t
    /\ \A t \in App :
         (pc[t] = "api_unlock" /\ frame[t].op \in {"broadcast", "broadcast_except"})
           => \A a \in frame[t].sched : client[a].live

C6_Witness ==
    /\ pc[EvThread] = "rm_free"
    /\ owed[frame[EvThread].client] = 1
    /\ ~UseStatic(owedPl[frame[EvThread].client].len)
    /\ \E c \in Conns : c # frame[EvThread].conn /\ connState[c] = "open"

\* a step of a CLOSED notification for a connection that already had one:
\* the notification arriving (with or without a call of remove_client), or a
\* later step of the remove_client it called
SecondClose(c) ==
    /\ connState[c] = "closed"
    /\ \/ pc[EvThread] = "idle" /\ ~reclosed /\ reclosed'
       \/ /\ pc[EvThread] = "idle" /\ pc'[EvThread] # "idle"
          /\ frame'[EvThread].op = "closed" /\ frame'[EvThread].conn = c
       \/ /\ pc[EvThread] \in {"rm_free", "rm_unlock"}
          /\ pc'[EvThread] # pc[EvThread]
          /\ frame[EvThread].conn = c

\* C7: a second unregister of the same client removes nothing from the
\* registry, frees no record and no buffer, and does not reach the
\* disconnect hook (the "rm_free" step of remove_client).
C7_UnregisterIdempotent ==
    [][ \A c \in Conns :
          SecondClose(c)
            => /\ clients' = clients
               /\ client' = client
               /\ dynbuf' = dynbuf
               /\ pc'[EvThread] # "rm_free" ]_vars

C7_Witness ==
    /\ reclosed
    /\ clients # <<>>
    /\ \E c \in Conns : connState[c] = "closed" /\ psd_client[c] = NULL

C9_ZeroIsUnbounded ==
    (inited /\ cfgIn = 0)
      => \A n \in 0..(MAX_CLIENTS_DEFAULT + 1) :
             ~CapacityReached(n, max_clients)

\* C10 as stated: a thread inside lws_write does not own the registry lock.
C10_Original ==
    \A t \in Threads : pc[t] = "w_write" => lock # t

\* C10 amended: lws_write is performed while the registry mutex is held by
\* the writing thread: a thread inside lws_write owns the lock.
C10_WriteUnderLock ==
    \A t \in Threads : pc[t] = "w_write" => lock = t

C10_Witness ==
    /\ pc[EvThread] = "w_write"
    /\ \E t \in App : pc[t] = "idle"

\* the heap buffers malloc handed out and free has not taken back
LiveBufs == { b \in Bufs : dynbuf[b] # FreeBuf }

\* the registered clients with a pending send kept in a heap buffer
HeapPending ==
    { a \in Range(clients) :
        client[a].tx_pending # 0 /\ client[a].using_static = 0 }

\* C11: for every registered client tx_pending is set exactly when a
\* successful scheduling has not been handed to the transport yet, and then
\* the buffer lws_write would read holds that scheduling's payload.
C11_PendingIffBuffered ==
    \A a \in Range(clients) :
        /\ (client[a].tx_pending # 0) <=> (owed[a] = 1)
        /\ owed[a] \in {0, 1}
        /\ client[a].tx_pending # 0
             => /\ owedPl[a] \in ValidPayloads
                /\ client[a].tx_len = owedPl[a].len
                /\ WriteBytes(client[a], dynbuf) = PayloadBytes(owedPl[a])

C11_Witness ==
    \E a, o \in Range(clients) :
        /\ client[a].tx_pending = 1 /\ client[a].using_static = 0
        /\ client[a].tx_buf_static # <<>>
        /\ client[o].tx_pending = 0 /\ client[o].tx_len # 0

C13_HeapBuffersOwned ==
    /\ LiveBufs = { client[a].tx_buf_dynamic : a \in HeapPending }
    /\ \A a, o \in HeapPending :
         a # o => client[a].tx_buf_dynamic # client[o].tx_buf_dynamic
    /\ \A a \in Range(clients) :
         client[a].tx_buf_dynamic # NULL
           => client[a].tx_buf_dynamic \in LiveBufs

\* C14: remove_client of a client with a pending send takes the client off
\* the list and releases its heap buffer before the record is freed, and
\* nothing is written afterwards for it: the writable callback writes only
\* for a registered client on an open connection, and a closed connection
\* has no client.
C14_UnregisterDiscards ==
    /\ pc[EvThread] = "rm_free"
         => LET rec == client[frame[EvThread].client] IN
            /\ frame[EvThread].client \notin Range(clients)
            /\ rec.tx_buf_dynamic # NULL
                 => dynbuf[rec.tx_buf_dynamic] = FreeBuf
    /\ pc[EvThread] = "w_write"
         => /\ frame[EvThread].client \in Range(clients)
            /\ connState[frame[EvThread].conn] = "open"
    /\ wire # NoFrame
         => /\ connState[wire.wsi] = "open"
            /\ psd_client[wire.wsi] \in Range(clients)
    /\ \A c \in Conns : connState[c] = "closed" => psd_client[c] = NULL

C14_Witness ==
    /\ pc[EvThread] = "rm_free"
    /\ owed[frame[EvThread].client] = 1
    /\ owedPl[frame[EvThread].client].len = STATIC_BUFFER_SIZE - LWS_PRE + 1
    /\ client[frame[EvThread].client].tx_buf_dynamic # NULL
    /\ LiveBufs = {}

\* thread t takes the step into the critical section of the broadcast op
BcastStep(t, op) ==
    pc[t] = "idle" /\ pc'[t] = "api_unlock" /\ frame'[t].op = op

\* the registered clients this step turns from idle to pending
NewlyPending ==
    { a \in Range(clients) :
        client[a].tx_pending = 0 /\ client'[a].tx_pending # 0 }

\* no registered client is busy
NoneBusy == \A a \in Range(clients) : client[a].tx_pending = 0

\* C15 as stated: over K registered clients, none busy,
\* ws_raw_broadcast_except schedules every client but the excluded one and
\* returns K-1, or schedules all and returns K when the excluded pointer is
\* not a registered client.
C15_Original ==
    [][ \A t \in App :
          (BcastStep(t, "broadcast_except") /\ NoneBusy)
            => LET excl == frame'[t].client
                   want == Range(clients) \ {excl}
               IN  /\ NewlyPending = want
                   /\ frame'[t].res = Cardinality(want)
                   /\ excl \in Range(clients)
                        => frame'[t].res = Len(clients) - 1
                   /\ excl \notin Range(clients)
                        => frame'[t].res = Len(clients) ]_vars

\* C15 amended: ... schedules and returns K-1 (K when the excluded pointer
\* is not registered) for a payload of at most STATIC_BUFFER_SIZE - LWS_PRE
\* bytes; for a longer payload it schedules and counts exactly the clients,
\* among those, whose heap buffer could be allocated.  The excluded client is
\* never changed, and every scheduled client is armed.
C15_ExceptCount ==
    [][ \A t \in App :
          (BcastStep(t, "broadcast_except") /\ NoneBusy)
            => LET excl == frame'[t].client
                   want == Range(clients) \ {excl}
                   n == frame'[t].pl.len
               IN  /\ NewlyPending \subseteq want
                   /\ frame'[t].res = Cardinality(NewlyPending)
                   /\ n <= STATIC_BUFFER_SIZE - LWS_PRE
                        => /\ NewlyPending = want
                           /\ excl \in Range(clients)
                                => frame'[t].res = Len(clients) - 1
                           /\ excl \notin Range(clients)
                                => frame'[t].res = Len(clients)
                   /\ \A a \in want \ NewlyPending :
                        /\ client'[a].tx_buf_dynamic = NULL
                        /\ client'[a].tx_len = client[a].tx_len
                   /\ \A a \in NewlyPending :
                        /\ armed'[client[a].wsi]
                        /\ client'[a].tx_len = n
                   /\ excl \in Range(clients) => client'[excl] = client[excl]
              ]_vars

C15_Witness ==
    \E t \in App :
        /\ pc[t] = "api_unlock" /\ frame[t].op = "broadcast_except"
        /\ Len(clients) = 2
        /\ frame[t].client \in Range(clients)
        /\ frame[t].res = 1
        /\ client[frame[t].client].tx_pending = 0
        /\ \E a \in Range(clients) :
             a # frame[t].client /\ owedPl[a] = frame[t].pl

\* C16: ws_raw_broadcast returns the number of clients it scheduled.
C16_BroadcastReturnsCount ==
    \A t \in App :
        (pc[t] = "api_unlock" /\ frame[t].op = "broadcast")
          => frame[t].res = Cardinality(frame[t].sched)

\* C17: a broadcast leaves a client that is busy when visited as it is
\* (record, heap buffer, outstanding payload), does not schedule or count
\* it, and nothing schedules it afterwards on the broadcast's behalf: a
\* client becomes pending only in the entry step of a send or a broadcast.
C17_BusySkipped ==
    [][ /\ \A t \in App :
             (BcastStep(t, "broadcast") \/ BcastStep(t, "broadcast_except"))
               => /\ \A a \in Range(clients) :
                       client[a].tx_pending # 0
                         => /\ client'[a] = client[a]
                            /\ client[a].tx_buf_dynamic # NULL
                                 => dynbuf'[client[a].tx_buf_dynamic]
                                      = dynbuf[client[a].tx_buf_dynamic]
                            /\ owed'[a] = owed[a]
                            /\ owedPl'[a] = owedPl[a]
                            /\ a \notin frame'[t].sched
                  /\ frame'[t].op = "broadcast_except"
                       => frame'[t].res = Cardinality(NewlyPending)
        /\ NewlyPending # {}
             => \E t \in App : /\ pc[t] \in {"idle", "send_call"}
                                /\ pc'[t] = "api_unlock" ]_vars

C17_Witness ==
    \E t \in App :
        /\ pc[t] = "api_unlock" /\ frame[t].op = "broadcast"
        /\ \E a, o \in Range(clients) :
             /\ client[a].tx_pending = 1 /\ a \notin frame[t].sched
             /\ owedPl[a] # frame[t].pl
             /\ o \in frame[t].sched

\* C18: ws_raw_broadcast_except returns -1 only for invalid arguments: a call
\* that got past the argument test had a payload and a non-zero length and
\* returns a count between 0 and the number of registered clients; a call
\* refused by the test returns -1.
C18_ExceptErrorOnlyForArgs ==
    \A t \in App :
        frame[t].op = "broadcast_except"
          => /\ pc[t] = "api_early" => frame[t].res = -1
             /\ pc[t] = "api_unlock"
                  => /\ frame[t].pl.data # NullData
                     /\ frame[t].pl.len > 0
                     /\ frame[t].res \in 0..Len(clients)
                     /\ frame[t].res = Cardinality(frame[t].sched)

C18_Witness ==
    \E t \in App :
        /\ pc[t] = "api_unlock" /\ frame[t].op = "broadcast_except"
        /\ frame[t].res = 0
        /\ frame[t].client \notin Range(clients)
        /\ \E a, o \in Range(clients) :
             /\ client[a].tx_pending = 1
             /\ client[o].tx_pending = 0

\* thread t enters ws_raw_send_to on a registered, idle client and gets -1:
\* the malloc of the heap path failed
AllocFailStep(t) ==
    /\ SendStep(t)
    /\ client[frame'[t].client].live
    /\ client[frame'[t].client].tx_pending = 0
    /\ frame'[t].res = -1

\* the record of a client whose inline send was handed off and whose next,
\* heap-backed send then failed to allocate
AfterAllocFail(a) ==
    /\ client[a].live /\ client[a].tx_pending = 0
    /\ client[a].using_static = 0
    /\ client[a].tx_len = STATIC_BUFFER_SIZE - LWS_PRE

\* C19 as stated: when the heap allocation fails the send returns an error,
\* tx_pending stays false and no field of the client's transmission state
\* is changed.
C19_Original ==
    [][ \A t \in App :
          AllocFailStep(t)
            => /\ client'[frame'[t].client] = client[frame'[t].client]
               /\ dynbuf' = dynbuf ]_vars

\* C19 amended: when the heap allocation fails the send returns an error,
\* tx_pending stays false, the buffers, the length and the heap are unchanged
\* and no writable notification is armed; the only field written is
\* using_static, which is left 0.  A later send of an inline-sized payload
\* to the same client succeeds.
C19_AllocFailure ==
    [][ \A t \in App :
          LET a == frame'[t].client IN
          /\ AllocFailStep(t)
               => /\ frame'[t].pl.len > STATIC_BUFFER_SIZE - LWS_PRE
                  /\ client'[a] = [client[a] EXCEPT !.using_static = 0]
                  /\ client'[a].tx_pending = 0
                  /\ dynbuf' = dynbuf
                  /\ armed' = armed
                  /\ owed' = owed
          /\ (SendStep(t) /\ AfterAllocFail(a)
                /\ frame'[t].pl.len <= STATIC_BUFFER_SIZE - LWS_PRE)
               => /\ frame'[t].res = 0
                  /\ client'[a].tx_pending = 1
                  /\ client'[a].using_static = 1 ]_vars

C19_Witness ==
    \E t \in App :
        /\ pc[t] = "api_unlock" /\ frame[t].op = "send_to"
        /\ frame[t].res = -1 /\ ~frame[t].touched
        /\ AfterAllocFail(frame[t].client)
        /\ client[frame[t].client].tx_buf_static
             = << <<STATIC_BUFFER_SIZE - LWS_PRE, 101>> >>

IdleWritableStep ==
    \/ /\ pc[EvThread] = "idle" /\ pc'[EvThread] = "w_unlock"
    \/ /\ pc[EvThread] = "w_unlock" /\ pc'[EvThread] = "idle"
       /\ wire = NoFrame

\* C21: a writable notification for a client whose tx_pending is false
\* writes nothing, frees no buffer and leaves every client record, the list
\* and the outstanding payloads as they are; so does one for a connection
\* without a client.
C21_IdleWritableNoOp ==
    [][ /\ IdleWritableStep
             => /\ wire' = NoFrame
                /\ client' = client
                /\ dynbuf' = dynbuf
                /\ clients' = clients
                /\ owed' = owed
                /\ pc'[EvThread] = "w_unlock"
                     => client[frame'[EvThread].client].tx_pending = 0
        /\ (pc[EvThread] = "idle" /\ pc'[EvThread] = "w_write")
             => client[frame'[EvThread].client].tx_pending # 0
        /\ \A c \in Conns :
             (psd_client[c] = NULL /\ armed[c] /\ ~armed'[c])
               => /\ wire' = wire /\ client' = client /\ dynbuf' = dynbuf
                  /\ pc' = pc ]_vars

C21_Witness ==
    /\ pc[EvThread] = "w_unlock"
    /\ wire = NoFrame
    /\ client[frame[EvThread].client].tx_pending = 0
    /\ client[frame[EvThread].client].tx_len = STATIC_BUFFER_SIZE - LWS_PRE + 1
    /\ LiveBufs # {}

\* the connect hook of the connection in frame[EvThread] is running
InConnectHook ==
    /\ pc[EvThread] \in {"on_connect", "hc_wait", "hc_unlock"}
    /\ frame[EvThread].op = "established"

\* the disconnect hook of the connection in frame[EvThread] is running
InDisconnectHook ==
    /\ pc[EvThread] \in {"rm_free", "hc_wait", "hc_unlock"}
    /\ frame[EvThread].op = "closed"

\* C22: the connect hook is entered exactly when add_client returned a
\* client (once per successful registration, never for a refused one), with
\* that client on the list; while it runs the service thread does not hold
\* the lock unless the hook itself took it in ws_raw_client_count, which then
\* returns the length of the list.
C22_ConnectHook ==
    [][ /\ (pc[EvThread] = "add_unlock" /\ pc'[EvThread] # "add_unlock")
             => /\ frame[EvThread].client # NULL
                     => /\ pc'[EvThread] = "on_connect"
                        /\ frame'[EvThread].client = frame[EvThread].client
                        /\ lock' = NoOwner
                /\ frame[EvThread].client = NULL => pc'[EvThread] = "idle"
        /\ (pc[EvThread] # "on_connect" /\ pc'[EvThread] = "on_connect")
             => pc[EvThread] \in {"add_unlock", "hc_unlock"}
        /\ InConnectHook'
             => /\ frame'[EvThread].client \in Range(clients')
                /\ psd_client'[frame'[EvThread].conn] = frame'[EvThread].client
                /\ connState'[frame'[EvThread].conn] = "open"
                /\ pc'[EvThread] # "hc_unlock" => lock' # EvThread
                /\ pc'[EvThread] = "hc_unlock"
                     => frame'[EvThread].res = Len(clients') ]_vars

C22_Witness ==
    /\ InConnectHook
    /\ pc[EvThread] = "hc_unlock"
    /\ frame[EvThread].res = 2
    /\ Len(clients) = 2

\* C23: the disconnect hook runs while the registry lock is not held by the
\* thread running it.
C23_DisconnectHookUnlocked ==
    InDisconnectHook => lock # EvThread

\* C24: the disconnect hook runs once for every client remove_client takes
\* off the list: every unlinking step enters the hook, with the client off
\* the list and its record still allocated, and the record is freed only by
\* the step that follows the hook.
C24_DisconnectHookOrder ==
    [][ /\ (pc[EvThread] = "idle" /\ clients' # clients
              /\ Len(clients') < Len(clients))
             => /\ pc'[EvThread] = "rm_free"
                /\ frame'[EvThread].client \in Range(clients)
        /\ (pc[EvThread] # "rm_free" /\ pc'[EvThread] = "rm_free")
             => /\ pc[EvThread] \in {"idle", "hc_unlock"}
                /\ pc[EvThread] = "idle" => Len(clients') = Len(clients) - 1
        /\ InDisconnectHook'
             => /\ frame'[EvThread].client \notin Range(clients')
                /\ client'[frame'[EvThread].client].live
        /\ \A a \in Addrs :
             (client[a].live /\ ~client'[a].live)
               => /\ pc[EvThread] = "rm_free"
                  /\ pc'[EvThread] = "rm_unlock"
                  /\ frame[EvThread].client = a ]_vars

C24_Witness ==
    /\ pc[EvThread] = "rm_unlock"
    /\ frame[EvThread].op = "closed"
    /\ ~client[frame[EvThread].client].live
    /\ clients # <<>>

\* C25: per connection the application sees the connect hook, then receive
\* hooks, then the disconnect hook: the connect hook starts when the
\* connection becomes open, the receive hook runs only for an open connection
\* whose client is registered, once the service thread has left every other
\* hook, and is given the delivered message; the disconnect hook runs for an
\* open connection, which is closed when it returns and never open again; the
\* writable hand-off happens for open connections only.
C25_EventOrder ==
    [][ /\ (pc[EvThread] = "add_unlock" /\ pc'[EvThread] = "on_connect")
             => /\ connState[frame[EvThread].conn] = "new"
                /\ connState'[frame[EvThread].conn] = "open"
        /\ (pc[EvThread] # "on_rx" /\ pc'[EvThread] = "on_rx")
             => pc[EvThread] = "idle"
        /\ pc'[EvThread] = "on_rx"
             => LET f == frame'[EvThread] IN
                /\ connState'[f.conn] = "open"
                /\ f.client # NULL
                /\ psd_client'[f.conn] = f.client
                /\ f.client \in Range(clients')
                /\ client'[f.client].wsi = f.conn
                /\ f.rx \in RxMessages
                /\ f.pl = f.rx
        /\ (pc'[EvThread] = "rm_free" \/ pc'[EvThread] = "w_write")
             => connState'[frame'[EvThread].conn] = "open"
        /\ \A c \in Conns :
             /\ connState[c] # "new" => connState'[c] # "new"
             /\ connState[c] \notin {"new", "open"} => connState'[c] # "open"
             /\ (connState[c] = "open" /\ connState'[c] # "open")
                  => /\ connState'[c] = "closed"
                     /\ pc[EvThread] = "rm_unlock"
                     /\ frame[EvThread].conn = c ]_vars

C25_Witness ==
    /\ pc[EvThread] = "on_rx"
    /\ \E c \in Conns : connState[c] = "closed"
    /\ \E c \in Conns : connState[c] = "open" /\ frame[EvThread].conn = c

C27_Original ==
    client_counter = Len(clients)

\* C27 amended: ws_raw_client_count returns the number of clients on the
\* list, which between callbacks is the number of connections that have a
\* client (registrations minus removals); ctx->client_counter is the number
\* of successful registrations so far and is never decremented.
C27_CountIsListLength ==
    /\ \A t \in Threads :
         (pc[t] = "hc_unlock" \/ (pc[t] = "api_unlock" /\ frame[t].op = "count"))
           => frame[t].res = Len(clients)
    /\ pc[EvThread] = "idle"
         => Len(clients) = Cardinality({ c \in Conns : psd_client[c] # NULL })
    /\ client_counter = Len(issued)
    /\ Len(clients) <= client_counter

C27_Witness ==
    \E t \in App :
        /\ pc[t] = "api_unlock" /\ frame[t].op = "count"
        /\ frame[t].res = 1
        /\ client_counter = 2

\* C29: ws_raw_send buffers the payload only into a client that is still
\* registered: the record it passes to ws_raw_send_to was not freed since it
\* was read from the list.
C29_SendToRegistered ==
    \A t \in App :
        (pc[t] = "api_unlock" /\ frame[t].op = "send"
           /\ frame[t].client # NULL)
          => (~frame[t].stale /\ ~frame[t].touched)

\* C30: the lock is owned exactly by the thread that is between the lock
\* and the unlock of an operation, so by one thread at most; a thread that
\* has returned, was refused before locking, runs a hook outside the
\* operation's critical section or is between the two halves of ws_raw_send
\* does not own it, and the lock is free when no operation is in progress.
C30_LockReleased ==
    /\ lock \in Threads \cup {NoOwner}
    /\ \A t \in Threads : InCS(t) <=> lock = t
    /\ \A t \in Threads :
         pc[t] \in {"idle", "api_early", "send_call", "on_connect", "on_rx"}
           => lock # t
    /\ (\A t \in Threads : pc[t] = "idle") => lock = NoOwner

C30_Witness ==
    /\ \A t \in Threads : pc[t] = "idle"
    /\ lock = NoOwner
    /\ \E c \in Conns : connState[c] = "refused_cap"
    /\ \E a \in Range(clients) :
         /\ client[a].using_static = 0
         /\ client[a].tx_pending = 0
         /\ client[a].tx_len = 0

\* C28: every payload scheduled for a registered client is eventually handed
\* to the transport (the client is idle again), unless the client is
\* unregistered first.
C28_ScheduledEventuallySent ==
    \A a \in Addrs :
        (a \in Range(clients) /\ owed[a] = 1)
          ~> (owed[a] = 0 \/ a \notin Range(clients))

\* ------------------------------------------ the secure-stream session
\* a call of server_srv_tx: it serves the request and moves pos, or refuses
TxCall ==
    /\ ss_pc = "idle" /\ ss_tx_req
    /\ ss_cb' = "tx"
    /\ << userobj, ss_tx_req >>' # << userobj, ss_tx_req >>

\* C31: the response length g->size never exceeds the capacity of
\* g->payload, g->pos never exceeds g->size, and no byte is copied past the
\* end of the payload buffer.
C31_PayloadBounded ==
    /\ userobj.size <= PAYLOAD_SIZE
    /\ userobj.pos <= userobj.size
    /\ overrun = 0

\* C32: every server_srv_tx call with pos = size answers "do not send" and
\* emits nothing; every other one emits the bytes from pos on, at least one
\* and not past size, the first chunk of a message with the start flag and
\* the following ones without it, each following chunk continuing the same
\* response where the previous chunk ended, the end flag exactly on the
\* chunk that reaches size, and further tx requested exactly while bytes
\* remain.
C32_ResponseSentWhole ==
    [][ TxCall =>
          IF userobj.size = userobj.pos
          THEN /\ ss_ret' = "TX_DONT_SEND"
               /\ tx_out' = NoChunk
               /\ userobj' = userobj
          ELSE /\ tx_out'.len > 0
               /\ tx_out'.from = userobj.pos
               /\ userobj'.pos = userobj.pos + tx_out'.len
               /\ userobj'.pos <= userobj.size
               /\ tx_out'.name = userobj.payload.name
               /\ tx_out'.som <=> ~stream.open
               /\ stream.open => /\ tx_out'.name = stream.name
                                 /\ tx_out'.from = stream.next
               /\ tx_out'.eom <=> (userobj'.pos = userobj.size)
               /\ ss_tx_req' <=> ~tx_out'.eom ]_vars

\* C33: server_srv_rx ends every inbound message with a response scheduled
\* or with the disconnect result, never with a read through a NULL parse
\* result or member; a request string that is no known command gets the
\* unknown-command response.
C33_EveryMessageAnswered ==
    /\ ss_ret # NullDeref
    /\ ss_pc \in {"rx_respond", "rx_can"}
         => received_command \in
              { sykoCommandsTranslate(r) : r \in RequestStrings }
    /\ (ss_cb = "rx" /\ ss_pc = "idle" /\ ss_ret = "OK")
         => /\ ss_tx_req
            /\ userobj.pos = 0
            /\ userobj.payload.name = ResponseFor(received_command).name

\* ------------------------------------------------------------ sendCanMjs
\* frames needed for len bytes: ceil(len / 8)
FramesFor(len) == (len + CAN_MAX_DLEN - 1) \div CAN_MAX_DLEN

RECURSIVE SumDlc(_)
SumDlc(writes) ==
    IF writes = << >> THEN 0 ELSE Head(writes).can_dlc + SumDlc(Tail(writes))

\* C34: sendCanMjs writes the frames of the message in order, frame i with
\* dlc = min(8, bytes remaining), the message's bytes 8(i-1)+1.. in its data
\* and zeros in the rest; no write follows a failed one; the loop has made
\* at most ceil(len/8) turns and fewer while bytes are missing, so it ends;
\* when it ends with every write successful it has written exactly
\* ceil(len/8) frames whose dlc sum to len.
C34_CanFrames ==
    LET n == Len(s_writes) IN
    /\ can.bytes_sent <= can.len
    /\ n <= FramesFor(can.len)
    /\ \A i \in 1..n :
         LET w == s_writes[i]
             sent == CAN_MAX_DLEN * (i - 1)
         IN  /\ w.can_dlc = Min(CAN_MAX_DLEN, can.len - sent)
             /\ w.can_dlc >= 1
             /\ Len(w.data) = CAN_MAX_DLEN
             /\ \A k \in 1..CAN_MAX_DLEN :
                  w.data[k] = IF k <= w.can_dlc THEN can.mjs[sent + k] ELSE 0
             /\ i < n => w.nbytes = CAN_MTU
    /\ can.pc = "loop"
         => /\ \A i \in 1..n : s_writes[i].nbytes = CAN_MTU
            /\ can.bytes_sent = SumDlc(s_writes)
            /\ can.bytes_sent < can.len => n < FramesFor(can.len)
    /\ can.pc = "sent"
         => /\ n = FramesFor(can.len)
            /\ \A i \in 1..n : s_writes[i].nbytes = CAN_MTU
            /\ SumDlc(s_writes) = can.len
            /\ can.bytes_sent = can.len
    /\ can.pc = "failed"
         => /\ n >= 1
            /\ s_writes[n].nbytes # CAN_MTU
            /\ can.bytes_sent = CAN_MAX_DLEN * (n - 1)

C34_Witness ==
    /\ can.pc = "sent"
    /\ can.len = 2 * CAN_MAX_DLEN + 1
    /\ Len(s_writes) = 3
    /\ s_writes[3].can_dlc = 1

=============================================================================
